---- MODULE Spec2Model ----
(***************************************************************************)
(* shrinkx / shrinkr: compress_file drives ffmpeg in a binary search over  *)
(* the video bitrate until the bounds are one kbps apart.                  *)
(*                                                                         *)
(* The model follows compress_file of src/shrinkx/shrinkx.py (lines        *)
(* 37-100) and of src/shrinkr.py (lines 8-63) statement by statement; the  *)
(* variable prog says which of the two programs runs.  The encoder process *)
(* and the output file are the environment of the function.                *)
(***************************************************************************)
EXTENDS Integers, Sequences, FiniteSets, TLC

VARIABLES
    prog,             \* "shrinkx" or "shrinkr": the source file that runs
    output_format,    \* argument output_format
    no_audio,         \* argument no_audio (shrinkx only)
    target_size,      \* argument target_size, bytes
    duration,         \* minutes of video in input_file
    ffmpeg,           \* the encoder: "ok", "picky", "broken", "missing", "erratic"
    show_background,  \* argument show_background of the current call
    run,              \* number of the current call of compress_file
    pc,               \* "nocall", "idle", "loop", "wait", "done"
    min_bitrate,      \* local min_bitrate
    max_bitrate,      \* local max_bitrate
    video_bitrate,    \* local video_bitrate
    size,             \* local size
    spinner,          \* position of the itertools.cycle spinner
    proc,             \* the child process: "none", "alive", "exited"
    returncode,       \* exit status of the child process
    file,             \* size of the file at output_file, NoFile when absent
    ret,              \* how the call ended: "none", "path", "None", "raised"
    spawned,          \* encoder processes started by the current call
    tried,            \* attempts measured by the current call, in order
    prev,             \* what the previous call did
    cli,              \* the command line and the tools main finds installed
    mpc,              \* main: "none", "start", "compress", "exited"
    exit_status,      \* exit status of the program
    failure,          \* the failing path main took, "none" when it took none
    source_exists,    \* input_file is on disk
    size_arg,         \* a --size argument
    parsed            \* what parse_size made of it

vars == <<prog, output_format, no_audio, target_size, duration, ffmpeg,
          show_background, run, pc, min_bitrate, max_bitrate, video_bitrate,
          size, spinner, proc, returncode, file, ret, spawned, tried, prev,
          cli, mpc, exit_status, failure, source_exists, size_arg, parsed>>

\* what no statement of compress_file changes
inputs == <<prog, output_format, no_audio, target_size, duration, ffmpeg,
            cli, mpc, exit_status, failure, source_exists, size_arg, parsed>>

----------------------------------------------------------------------------
(* Bounds of the model *)

\* target sizes are 1mb .. MaxTarget mb
MaxTarget == 2
\* input videos last 1 .. MaxDuration minutes
MaxDuration == 2
\* compress_file is called up to MaxRuns times on the same input
MaxRuns == 2
\* a picky encoder refuses video bitrates under PickyBelow kbps
PickyBelow == 100
MaxNumber == 1000

----------------------------------------------------------------------------
(* Program constants *)

\* min_bitrate = 0
InitialMin == 0
\* max_bitrate = 10000
InitialMax == 10000
\* audio_bitrate = "128k"
audio_bitrate == 128
\* the ten glyphs of the spinner cycle
SpinnerFrames == 10
\* os.path.getsize raises when output_file does not exist
NoFile == -1
\* a local of compress_file that no statement has assigned yet
Unbound == -1

Programs == {"shrinkx", "shrinkr"}

\* codec_map of each program: format |-> <<video codec, audio codec>>
codec_map(p) ==
    IF p = "shrinkx"
    THEN [f \in {"mp4", "webm", "mkv", "avi"} |->
             CASE f = "mp4"  -> <<"libx264", "aac">>
               [] f = "webm" -> <<"libvpx-vp9", "libopus">>
               [] f = "mkv"  -> <<"libx264", "aac">>
               [] f = "avi"  -> <<"mpeg4", "mp3">>]
    ELSE [f \in {"mp4", "webm"} |->
             CASE f = "mp4"  -> <<"libx264", "aac">>
               [] f = "webm" -> <<"libvpx", "libopus">>]

\* the formats asked for: supported by both, by shrinkx only, by neither
RequestedFormats == {"mp4", "mkv", "xyz"}

\* a size string "<n>mb" as parse_size returns it
Megabytes(n) == n * 1024 * 1024

TargetSizes == {Megabytes(n) : n \in 1..MaxTarget}

\* a file that may already be at output_file before the first call
PreExisting == {NoFile, Megabytes(3) \div 2}

----------------------------------------------------------------------------
(* The encoder, as the command line of one attempt asks it to work *)

\* ffmpeg -i input_file -b:v <b>k [-b:a 128k | -an] output_file: the bytes
\* of a constant-bitrate encode of dur minutes (kbps * 1000 / 8 * seconds)
EncodedSize(b, an, dur) ==
    (((b + (IF an THEN 0 ELSE audio_bitrate)) * 1000) \div 8) * 60 * dur

\* the encoder accepts the job: it is sound, or picky and the bitrate it is
\* asked for is not under its floor
Accepts(b) == ffmpeg = "ok" \/ (ffmpeg = "picky" /\ b >= PickyBelow)

\* the encoder exits with an error: it cannot read the input or lacks the
\* codec, or it is picky and the bitrate is under its floor
Refuses(b) == ffmpeg = "broken" \/ (ffmpeg = "picky" /\ b < PickyBelow)

OverwriteAppending(old, new) == IF old = NoFile THEN new ELSE old + new

\* ffmpeg -y: the encode replaces whatever is at output_file
Overwrite(old, new) == new

----------------------------------------------------------------------------
(* The statements of compress_file *)

InitialBoundsOne == <<InitialMin, InitialMin + 1>>

\* min_bitrate = 0; max_bitrate = 10000
InitialBounds == <<InitialMin, InitialMax>>

RejectedByShrinkxMap(p, f) == f \notin DOMAIN codec_map("shrinkx")

\* if output_format not in codec_map
Rejected(p, f) == f \notin DOMAIN codec_map(p)

LoopContinuesWhileApart(lo, hi) == hi - lo > 0

\* while max_bitrate - min_bitrate > 1
LoopContinues(lo, hi) == hi - lo > 1

MidNextUp(lo, hi) == lo + 1

MidUpper(lo, hi) == hi

\* video_bitrate = (max_bitrate + min_bitrate) // 2
Mid(lo, hi) == (hi + lo) \div 2

NewBoundsPastMid(lo, hi, mid, sz, target) ==
    IF sz > target THEN <<lo, mid - 1>> ELSE <<mid, hi>>

NewBoundsSwapped(lo, hi, mid, sz, target) ==
    IF sz > target THEN <<mid, hi>> ELSE <<lo, mid>>

\* if size > target_size: max_bitrate = video_bitrate
\* else: min_bitrate = video_bitrate
NewBounds(lo, hi, mid, sz, target) ==
    IF sz > target THEN <<lo, mid>> ELSE <<mid, hi>>

WaitOverVerboseOnly(verbose, p) == verbose => p = "exited"

\* subprocess.run returns, or process.poll() is no longer None
WaitOver(verbose, p) == p = "exited"

ReturnedUnlessOversized(sz, target) == IF sz > target THEN "raised" ELSE "path"

\* return output_file
Returned(sz, target) == "path"

NoPrev ==
    [tried |-> <<>>, ret |-> "none", size |-> Unbound,
     show_background |-> FALSE, bounds |-> <<Unbound, Unbound>>]

\* no command line: compress_file is called directly
NoCli ==
    [args_ok |-> TRUE, link |-> FALSE, ytdlp |-> FALSE, download_ok |-> FALSE,
     preset |-> "none"]

\* no --size argument to parse
NoArg == [num |-> 0, unit |-> "", half |-> FALSE, str |-> <<>>]

\* parse_size has not run
NoParse == [err |-> FALSE, hi |-> 0, lo |-> 0]

\* main and parse_size take no part
OutsideMain ==
    /\ cli = NoCli
    /\ mpc = "none"
    /\ exit_status = 0
    /\ failure = "none"
    /\ source_exists = TRUE
    /\ size_arg = NoArg
    /\ parsed = NoParse

TypeOK ==
    /\ prog \in Programs
    /\ output_format \in RequestedFormats \cup {"webm"}
    /\ no_audio \in BOOLEAN
    /\ show_background \in BOOLEAN
    /\ run \in 1..MaxRuns
    /\ pc \in {"nocall", "idle", "loop", "wait", "done"}
    /\ mpc \in {"none", "start", "parsed", "compress", "exited"}
    /\ proc \in {"none", "alive", "exited"}
    /\ ret \in {"none", "path", "None", "raised"}
    /\ spinner \in 0..(SpinnerFrames - 1)
    /\ spawned \in Nat

Init ==
    /\ prog \in Programs
    /\ output_format \in RequestedFormats
    /\ no_audio \in (IF prog = "shrinkx" THEN BOOLEAN ELSE {FALSE})
    /\ target_size \in TargetSizes
    /\ duration \in 1..MaxDuration
    /\ ffmpeg \in {"ok", "picky", "broken", "missing"}
    /\ show_background \in BOOLEAN
    /\ file \in PreExisting
    /\ run = 1
    /\ pc = "idle"
    /\ min_bitrate = Unbound
    /\ max_bitrate = Unbound
    /\ video_bitrate = Unbound
    /\ size = Unbound
    /\ spinner = 0
    /\ proc = "none"
    /\ returncode = 0
    /\ ret = "none"
    /\ spawned = 0
    /\ tried = <<>>
    /\ prev = NoPrev
    /\ OutsideMain

\* lines 37-65: the locals are set up, the format is not in codec_map,
\* compress_file prints and returns None
CallUnsupported ==
    /\ pc = "idle"
    /\ Rejected(prog, output_format)
    /\ min_bitrate' = InitialBounds[1]
    /\ max_bitrate' = InitialBounds[2]
    /\ spinner' = 0
    /\ ret' = "None"
    /\ pc' = "done"
    /\ UNCHANGED <<inputs, show_background, run, video_bitrate, size, proc,
                   returncode, file, spawned, tried, prev>>

\* lines 37-69: the locals are set up and the format is in codec_map
CallSupported ==
    /\ pc = "idle"
    /\ ~Rejected(prog, output_format)
    /\ min_bitrate' = InitialBounds[1]
    /\ max_bitrate' = InitialBounds[2]
    /\ spinner' = 0
    /\ pc' = "loop"
    /\ UNCHANGED <<inputs, show_background, run, video_bitrate, size, proc,
                   returncode, file, ret, spawned, tried, prev>>

\* lines 71-85: the loop goes on, the command is built and the process starts
Spawn ==
    /\ pc = "loop"
    /\ LoopContinues(min_bitrate, max_bitrate)
    /\ ffmpeg # "missing"
    /\ video_bitrate' = Mid(min_bitrate, max_bitrate)
    /\ proc' = "alive"
    /\ spawned' = spawned + 1
    /\ pc' = "wait"
    /\ UNCHANGED <<inputs, show_background, run, min_bitrate, max_bitrate,
                   size, spinner, returncode, file, ret, tried, prev>>

\* lines 71-85: there is no ffmpeg to start; subprocess.run and Popen raise
\* FileNotFoundError, which leaves compress_file
SpawnFails ==
    /\ pc = "loop"
    /\ LoopContinues(min_bitrate, max_bitrate)
    /\ ffmpeg = "missing"
    /\ video_bitrate' = Mid(min_bitrate, max_bitrate)
    /\ ret' = "raised"
    /\ pc' = "done"
    /\ UNCHANGED <<inputs, show_background, run, min_bitrate, max_bitrate,
                   size, spinner, proc, returncode, file, spawned, tried, prev>>

\* the encoder writes output_file and exits with status 0
EncoderWrites ==
    /\ proc = "alive"
    /\ Accepts(video_bitrate)
    /\ file' = Overwrite(file, EncodedSize(video_bitrate, no_audio, duration))
    /\ returncode' = 0
    /\ proc' = "exited"
    /\ UNCHANGED <<inputs, show_background, run, pc, min_bitrate, max_bitrate,
                   video_bitrate, size, spinner, ret, spawned, tried, prev>>

\* an encoder with opaque rate control writes a file of any size
EncoderErratic ==
    /\ proc = "alive"
    /\ ffmpeg = "erratic"
    /\ \E sz \in {target_size, target_size + 1} :
           file' = Overwrite(file, sz)
    /\ returncode' = 0
    /\ proc' = "exited"
    /\ UNCHANGED <<inputs, show_background, run, pc, min_bitrate, max_bitrate,
                   video_bitrate, size, spinner, ret, spawned, tried, prev>>

\* the encoder exits with status 1 before it opens output_file
EncoderFails ==
    /\ proc = "alive"
    /\ Refuses(video_bitrate)
    /\ returncode' = 1
    /\ proc' = "exited"
    /\ UNCHANGED <<inputs, show_background, run, pc, min_bitrate, max_bitrate,
                   video_bitrate, size, spinner, file, ret, spawned, tried,
                   prev>>

\* lines 86-90: one turn of the quiet wait loop: the process is alive, a
\* spinner glyph is written, time.sleep(0.1)
Poll ==
    /\ pc = "wait"
    /\ ~show_background
    /\ proc = "alive"
    /\ spinner' = (spinner + 1) % SpinnerFrames
    /\ UNCHANGED <<inputs, show_background, run, pc, min_bitrate, max_bitrate,
                   video_bitrate, size, proc, returncode, file, ret, spawned,
                   tried, prev>>

\* lines 83/86, 92-97: the wait is over, the file is measured and one bound
\* moves to the bitrate tried
Measure ==
    /\ pc = "wait"
    /\ WaitOver(show_background, proc)
    /\ file # NoFile
    /\ size' = file
    /\ LET b == NewBounds(min_bitrate, max_bitrate, video_bitrate, file,
                          target_size)
       IN  /\ min_bitrate' = b[1]
           /\ max_bitrate' = b[2]
    /\ tried' = Append(tried, [bitrate |-> video_bitrate, size |-> file,
                               returncode |-> returncode])
    /\ proc' = "none"
    /\ pc' = "loop"
    /\ UNCHANGED <<inputs, show_background, run, video_bitrate, spinner,
                   returncode, file, ret, spawned, prev>>

\* lines 83/86, 92: the wait is over and there is no file at output_file;
\* os.path.getsize raises, which leaves compress_file
MeasureMissing ==
    /\ pc = "wait"
    /\ WaitOver(show_background, proc)
    /\ file = NoFile
    /\ ret' = "raised"
    /\ proc' = "none"
    /\ pc' = "done"
    /\ UNCHANGED <<inputs, show_background, run, min_bitrate, max_bitrate,
                   video_bitrate, size, spinner, returncode, file, spawned,
                   tried, prev>>

\* lines 71, 99-100: the bounds are one apart; the size is printed and
\* output_file returned
LoopExit ==
    /\ pc = "loop"
    /\ ~LoopContinues(min_bitrate, max_bitrate)
    /\ ret' = Returned(size, target_size)
    /\ pc' = "done"
    /\ UNCHANGED <<inputs, show_background, run, min_bitrate, max_bitrate,
                   video_bitrate, size, spinner, proc, returncode, file,
                   spawned, tried, prev>>

\* the program is run again on the same input, with or without
\* --show-background; output_file is as the last run left it
Rerun ==
    /\ pc = "done"
    /\ run < MaxRuns
    /\ prev' = [tried |-> tried, ret |-> ret, size |-> size,
                show_background |-> show_background,
                bounds |-> <<min_bitrate, max_bitrate>>]
    /\ run' = run + 1
    /\ show_background' \in BOOLEAN
    /\ pc' = "idle"
    /\ min_bitrate' = Unbound
    /\ max_bitrate' = Unbound
    /\ video_bitrate' = Unbound
    /\ size' = Unbound
    /\ spinner' = 0
    /\ ret' = "none"
    /\ spawned' = 0
    /\ tried' = <<>>
    /\ returncode' = 0
    /\ UNCHANGED <<inputs, proc, file>>

Next ==
    \/ CallUnsupported
    \/ CallSupported
    \/ Spawn
    \/ SpawnFails
    \/ EncoderWrites
    \/ EncoderFails
    \/ Poll
    \/ Measure
    \/ MeasureMissing
    \/ LoopExit
    \/ Rerun

Spec == Init /\ [][Next]_vars

----------------------------------------------------------------------------
(* The search loop alone, against an encoder of any behaviour *)

InitSearch ==
    /\ prog \in Programs
    /\ output_format = "mp4"
    /\ no_audio = FALSE
    /\ target_size = Megabytes(MaxTarget)
    /\ duration = 1
    /\ ffmpeg = "erratic"
    /\ show_background \in BOOLEAN
    /\ file = NoFile
    /\ run = 1
    /\ pc = "idle"
    /\ min_bitrate = Unbound
    /\ max_bitrate = Unbound
    /\ video_bitrate = Unbound
    /\ size = Unbound
    /\ spinner = 0
    /\ proc = "none"
    /\ returncode = 0
    /\ ret = "none"
    /\ spawned = 0
    /\ tried = <<>>
    /\ prev = NoPrev
    /\ OutsideMain

NextSearch ==
    \/ CallSupported
    \/ Spawn
    \/ EncoderErratic
    \/ Poll
    \/ Measure
    \/ LoopExit

SearchSpec == InitSearch /\ [][NextSearch]_vars

----------------------------------------------------------------------------
(* main of shrinkx: the command line, the download, the call of            *)
(* compress_file, the removal of the input and the exit status             *)

\* what main does not touch while compress_file is not running
callstate == <<show_background, run, min_bitrate, max_bitrate, video_bitrate,
               size, spinner, proc, returncode, file, ret, spawned, tried,
               prev>>

CommandLines ==
    [args_ok : BOOLEAN, link : BOOLEAN, ytdlp : BOOLEAN,
     download_ok : BOOLEAN, preset : {"none", "chan", "discord"}]

\* is_youtube_link(input_file)
is_youtube_link(c) == c.link

\* --chan: webm, 3mb, no audio; --discord: mp4, 8mb
ApplyPreset(c, fmt, sz, an) ==
    IF c.preset = "chan" THEN <<"webm", Megabytes(3), TRUE>>
    ELSE IF c.preset = "discord" THEN <<"mp4", Megabytes(8), an>>
    ELSE <<fmt, sz, an>>

DownloadNeverRaises(ok) == FALSE

\* subprocess.run(command, check=True) and subprocess.check_output raise
\* CalledProcessError when yt-dlp exits with an error
DownloadRaises(ok) == ~ok

\* except SystemExit: sys.exit(0)
ExitAfterSystemExit(code) == 0

\* input_file != output_file: output_file is None or ends in
\* _compressed.<format>, so it never is input_file
SameAsInput(r) == FALSE

InitMain ==
    /\ prog = "shrinkx"
    /\ output_format \in RequestedFormats
    /\ no_audio \in BOOLEAN
    /\ target_size \in TargetSizes
    /\ duration \in 1..MaxDuration
    /\ ffmpeg \in {"ok", "picky", "broken", "missing"}
    /\ show_background \in BOOLEAN
    /\ file \in PreExisting
    /\ run = 1
    /\ pc = "nocall"
    /\ min_bitrate = Unbound
    /\ max_bitrate = Unbound
    /\ video_bitrate = Unbound
    /\ size = Unbound
    /\ spinner = 0
    /\ proc = "none"
    /\ returncode = 0
    /\ ret = "none"
    /\ spawned = 0
    /\ tried = <<>>
    /\ prev = NoPrev
    /\ cli \in CommandLines
    /\ mpc = "start"
    /\ exit_status = 0
    /\ failure = "none"
    /\ source_exists = ~is_youtube_link(cli)
    /\ size_arg = NoArg
    /\ parsed = NoParse

\* lines 12-16, 125, 153-154: the arguments are malformed; the parser writes
\* the error and the help and calls sys.exit(2), which main catches
MainUsage ==
    /\ mpc = "start"
    /\ ~cli.args_ok
    /\ failure' = "usage"
    /\ exit_status' = ExitAfterSystemExit(2)
    /\ mpc' = "exited"
    /\ UNCHANGED <<prog, output_format, no_audio, target_size, duration,
                   ffmpeg, cli, source_exists, size_arg, parsed, pc, callstate>>

\* lines 125-140, 153-154: a link, and yt-dlp is not installed; main prints
\* and calls sys.exit(1), which it catches
MainNoFetchTool ==
    /\ mpc = "start"
    /\ cli.args_ok
    /\ is_youtube_link(cli)
    /\ ~cli.ytdlp
    /\ LET a == ApplyPreset(cli, output_format, target_size, no_audio)
       IN  /\ output_format' = a[1]
           /\ target_size' = a[2]
           /\ no_audio' = a[3]
    /\ failure' = "fetch_tool"
    /\ exit_status' = ExitAfterSystemExit(1)
    /\ mpc' = "exited"
    /\ UNCHANGED <<prog, duration, ffmpeg, cli, source_exists, size_arg,
                   parsed, pc, callstate>>

\* lines 125-142, 150-152: a link, and the download raises; main prints the
\* exception and the help and returns
MainDownloadFails ==
    /\ mpc = "start"
    /\ cli.args_ok
    /\ is_youtube_link(cli)
    /\ cli.ytdlp
    /\ DownloadRaises(cli.download_ok)
    /\ LET a == ApplyPreset(cli, output_format, target_size, no_audio)
       IN  /\ output_format' = a[1]
           /\ target_size' = a[2]
           /\ no_audio' = a[3]
    /\ failure' = "download"
    /\ exit_status' = 0
    /\ mpc' = "exited"
    /\ UNCHANGED <<prog, duration, ffmpeg, cli, source_exists, size_arg,
                   parsed, pc, callstate>>

\* lines 125-144: a file, or a link that is downloaded to one; main calls
\* compress_file
MainCalls ==
    /\ mpc = "start"
    /\ cli.args_ok
    /\ is_youtube_link(cli) =>
           (cli.ytdlp /\ ~DownloadRaises(cli.download_ok))
    /\ LET a == ApplyPreset(cli, output_format, target_size, no_audio)
       IN  /\ output_format' = a[1]
           /\ target_size' = a[2]
           /\ no_audio' = a[3]
    /\ source_exists' = TRUE
    /\ pc' = "idle"
    /\ mpc' = "compress"
    /\ UNCHANGED <<prog, duration, ffmpeg, cli, exit_status, failure,
                   size_arg, parsed, callstate>>

\* lines 144-148: compress_file returned, output_file or None; main prints
\* it, removes input_file and returns
MainReturned ==
    /\ mpc = "compress"
    /\ pc = "done"
    /\ ret \in {"path", "None"}
    /\ source_exists' = (source_exists /\ SameAsInput(ret))
    /\ exit_status' = 0
    /\ mpc' = "exited"
    /\ UNCHANGED <<prog, output_format, no_audio, target_size, duration,
                   ffmpeg, cli, failure, size_arg, parsed, pc, callstate>>

\* lines 144, 150-152: compress_file raised; main prints the exception and
\* the help and returns
MainCaught ==
    /\ mpc = "compress"
    /\ pc = "done"
    /\ ret = "raised"
    /\ failure' = "search"
    /\ exit_status' = 0
    /\ mpc' = "exited"
    /\ UNCHANGED <<prog, output_format, no_audio, target_size, duration,
                   ffmpeg, cli, source_exists, size_arg, parsed, pc, callstate>>

NextMain ==
    \/ MainUsage
    \/ MainNoFetchTool
    \/ MainDownloadFails
    \/ MainCalls
    \/ CallUnsupported
    \/ CallSupported
    \/ Spawn
    \/ SpawnFails
    \/ EncoderWrites
    \/ EncoderFails
    \/ Poll
    \/ Measure
    \/ MeasureMissing
    \/ LoopExit
    \/ MainReturned
    \/ MainCaught

MainSpec == InitMain /\ [][NextMain]_vars

----------------------------------------------------------------------------
(* parse_size, the type of the --size argument. A string is a sequence of  *)
(* one-character strings. A number of bytes is kept in two limbs, hi and   *)
(* lo, and is hi * Limb + lo with lo < Limb: Python integers are unbounded *)
(* and 2gb does not fit the integers of the model checker.                 *)

Limb == 1024 * 1024

DigitChar(d) == <<"0", "1", "2", "3", "4", "5", "6", "7", "8", "9">>[d + 1]

IsDigit(c) == \E d \in 0..9 : DigitChar(d) = c

DigitValue(c) == CHOOSE d \in 0..9 : DigitChar(d) = c

RECURSIVE Digits(_)
\* str(n)
Digits(n) ==
    IF n < 10 THEN <<DigitChar(n)>>
    ELSE Digits(n \div 10) \o <<DigitChar(n % 10)>>

\* the spellings of a unit on the command line, and two that are no unit
UnitSpellings ==
    [kb |-> {<<"k", "b">>, <<"K", "B">>, <<"K", "b">>},
     mb |-> {<<"m", "b">>, <<"M", "B">>, <<"m", "B">>},
     gb |-> {<<"g", "b">>, <<"G", "B">>, <<"G", "b">>},
     none |-> {<<>>},
     other |-> {<<"b">>, <<"k">>}]

\* the strings given to --size: a number up to MaxNumber, with or without
\* the fraction .5, and a unit
SizeArguments ==
    UNION { { [num |-> n, unit |-> u, half |-> h,
               str |-> Digits(n) \o (IF h THEN <<".", "5">> ELSE <<>>) \o sp] :
                  n \in 0..MaxNumber, h \in BOOLEAN, sp \in UnitSpellings[u] } :
            u \in DOMAIN UnitSpellings }

LowerChar(c) ==
    CASE c = "K" -> "k"
      [] c = "M" -> "m"
      [] c = "G" -> "g"
      [] c = "B" -> "b"
      [] OTHER -> c

NoLower(s) == s

\* size_str.lower()
Lower(s) == [i \in DOMAIN s |-> LowerChar(s[i])]

\* size_str.endswith(suffix)
EndsWith(s, suffix) ==
    /\ Len(s) >= Len(suffix)
    /\ SubSeq(s, Len(s) - Len(suffix) + 1, Len(s)) = suffix

\* size_str[:-2]
WithoutUnit(s) == SubSeq(s, 1, Len(s) - 2)

RECURSIVE DecimalValue(_)
DecimalValue(s) ==
    IF s = <<>> THEN 0
    ELSE DecimalValue(SubSeq(s, 1, Len(s) - 1)) * 10 + DigitValue(s[Len(s)])

AllDigits(s) == s # <<>> /\ \A i \in DOMAIN s : IsDigit(s[i])

\* the value failed to parse: ValueError
ValueError == [err |-> TRUE, hi |-> 0, lo |-> 0, half |-> FALSE]

\* int(s) of a string: digits, or ValueError
IntOf(s) ==
    IF AllDigits(s)
    THEN [err |-> FALSE, hi |-> DecimalValue(s) \div Limb,
          lo |-> DecimalValue(s) % Limb, half |-> FALSE]
    ELSE ValueError

\* float(s) of a string: digits, or digits and the fraction .5 or .0, which
\* a float holds exactly; or ValueError
FloatOf(s) ==
    IF AllDigits(s) THEN IntOf(s)
    ELSE IF /\ Len(s) > 2
            /\ s[Len(s) - 1] = "."
            /\ s[Len(s)] \in {"0", "5"}
            /\ AllDigits(WithoutUnit(s))
         THEN [IntOf(WithoutUnit(s)) EXCEPT !.half = (s[Len(s)] = "5")]
         ELSE ValueError

\* x * 1024, of an integer or of a float
Times1024(x) ==
    IF x.err THEN x
    ELSE LET l == x.lo * 1024 + (IF x.half THEN 512 ELSE 0)
         IN  [err |-> FALSE, hi |-> x.hi * 1024 + l \div Limb,
              lo |-> l % Limb, half |-> FALSE]

\* int(x) of a float truncates; of an integer it is x
Truncated(x) == [err |-> x.err, hi |-> x.hi, lo |-> x.lo]

\* int(float(s)) in shrinkx, int(s) in shrinkr
NumberOf(p, s) == IF p = "shrinkx" THEN FloatOf(s) ELSE IntOf(s)

parse_size(p, size_str) ==
    LET s == Lower(size_str)
    IN  IF EndsWith(s, <<"k", "b">>)
        THEN Truncated(Times1024(NumberOf(p, WithoutUnit(s))))
        ELSE IF EndsWith(s, <<"m", "b">>)
        THEN Truncated(Times1024(Times1024(NumberOf(p, WithoutUnit(s)))))
        ELSE IF EndsWith(s, <<"g", "b">>)
        THEN Truncated(Times1024(Times1024(Times1024(
                           NumberOf(p, WithoutUnit(s))))))
        ELSE Truncated(IntOf(s))

InitParse ==
    /\ prog \in Programs
    /\ output_format = "mp4"
    /\ no_audio = FALSE
    /\ target_size = Megabytes(MaxTarget)
    /\ duration = 1
    /\ ffmpeg = "ok"
    /\ show_background = FALSE
    /\ file = NoFile
    /\ run = 1
    /\ pc = "nocall"
    /\ min_bitrate = Unbound
    /\ max_bitrate = Unbound
    /\ video_bitrate = Unbound
    /\ size = Unbound
    /\ spinner = 0
    /\ proc = "none"
    /\ returncode = 0
    /\ ret = "none"
    /\ spawned = 0
    /\ tried = <<>>
    /\ prev = NoPrev
    /\ cli = NoCli
    /\ mpc = "start"
    /\ exit_status = 0
    /\ failure = "none"
    /\ source_exists = TRUE
    /\ size_arg \in SizeArguments
    /\ parsed = NoParse

\* parser.parse_args() applies type=parse_size to the --size string
ParseSize ==
    /\ mpc = "start"
    /\ size_arg # NoArg
    /\ parsed' = parse_size(prog, size_arg.str)
    /\ mpc' = "parsed"
    /\ UNCHANGED <<prog, output_format, no_audio, target_size, duration,
                   ffmpeg, cli, exit_status, failure, source_exists, size_arg,
                   pc, callstate>>

NextParse == ParseSize

ParseSpec == InitParse /\ [][NextParse]_vars

----------------------------------------------------------------------------
(* The run with the fairness of a sequential program whose encoder exits:  *)
(* a statement that can run does run, and a process that was started       *)
(* exits.  The quiet wait loop may turn any number of times before that.   *)

LiveSpec ==
    /\ Init
    /\ [][Next]_vars
    /\ WF_vars(CallSupported)
    /\ WF_vars(Spawn)
    /\ WF_vars(EncoderWrites)
    /\ WF_vars(Measure)
    /\ WF_vars(LoopExit)

----------------------------------------------------------------------------
(* Claims *)

\* the bitrates the search can try
Searched == (InitialMin + 1)..(InitialMax - 1)

\* the encoder's output at bitrate b is at or under the target
Fits(b) == EncodedSize(b, no_audio, duration) <= target_size

RECURSIVE CeilLog2From(_, _, _)
CeilLog2From(n, k, p) == IF p >= n THEN k ELSE CeilLog2From(n, k + 1, 2 * p)

\* the least k with 2^k >= n
CeilLog2(n) == CeilLog2From(n, 0, 1)

\* the call has returned output_file
ReturnedPath == pc = "done" /\ ret = "path"

\* the first Len(a) attempts of b are the attempts of a
SameAttempts(a, b) ==
    /\ Len(a) <= Len(b)
    /\ \A i \in 1..Len(a) :
           /\ a[i].bitrate = b[i].bitrate
           /\ a[i].size = b[i].size

\* the current call repeats the previous one, as far as it has come
RepeatsPrevious ==
    /\ SameAttempts(tried, prev.tried)
    /\ (pc = "wait" /\ Len(prev.tried) > Len(tried))
           => video_bitrate = prev.tried[Len(tried) + 1].bitrate
    /\ pc = "done" =>
           /\ tried = prev.tried
           /\ ret = prev.ret
           /\ size = prev.size
           /\ <<min_bitrate, max_bitrate>> = prev.bounds

\* C1: with an encoder that works and whose size grows with the bitrate, if
\* some searched bitrate fits the target, the file left at output_file when
\* compress_file returns is at or under the target.
C1_ArtifactFits ==
    (ReturnedPath /\ ffmpeg = "ok" /\ \E b \in Searched : Fits(b))
        => file <= target_size

\* C2: with such an encoder, when the loop exits the bounds are one apart
\* and min_bitrate is the highest searched bitrate that fits, or 0 when none
\* fits.
C2_BoundsBracket ==
    (ReturnedPath /\ ffmpeg = "ok") =>
        /\ max_bitrate = min_bitrate + 1
        /\ min_bitrate \in {InitialMin} \cup Searched
        /\ min_bitrate # InitialMin => Fits(min_bitrate)
        /\ \A b \in Searched : b > min_bitrate => ~Fits(b)

C2_Witness ==
    /\ ReturnedPath
    /\ ffmpeg = "ok"
    /\ min_bitrate > InitialMin
    /\ max_bitrate < InitialMax

\* C3: whatever sizes are measured, a search starts at most
\* ceil(log2(10000)) = 14 encoding attempts, and at exit the bounds are at
\* most one apart.
C3_AttemptBound ==
    /\ spawned <= CeilLog2(InitialMax - InitialMin)
    /\ Len(tried) <= CeilLog2(InitialMax - InitialMin)
    /\ ReturnedPath => max_bitrate - min_bitrate <= 1

C3_Witness ==
    /\ ReturnedPath
    /\ ffmpeg = "erratic"
    /\ spawned = CeilLog2(InitialMax - InitialMin)
    /\ Len(tried) = spawned

\* C4: from the creation of the bounds until the loop exits,
\* 0 <= min_bitrate < max_bitrate <= 10000, whatever sizes are measured.
C4_BoundsOrdered ==
    pc # "idle" =>
        /\ 0 <= min_bitrate
        /\ min_bitrate < max_bitrate
        /\ max_bitrate <= 10000

C4_Witness ==
    /\ pc = "wait"
    /\ ffmpeg = "erratic"
    /\ min_bitrate > 0
    /\ max_bitrate < 10000
    /\ max_bitrate - min_bitrate = 2

\* C5: every iteration moves exactly one bound to the bitrate tried,
\* floor((min + max) / 2): max when the measured size is over the target,
\* min otherwise; min never decreases, max never increases and the width
\* strictly decreases.
C5_Narrowing ==
    [][(pc = "wait" /\ pc' = "loop") =>
          LET mid == (min_bitrate + max_bitrate) \div 2
          IN  /\ video_bitrate = mid
              /\ tried'[Len(tried')].bitrate = mid
              /\ IF size' > target_size
                 THEN max_bitrate' = mid /\ min_bitrate' = min_bitrate
                 ELSE min_bitrate' = mid /\ max_bitrate' = max_bitrate
              /\ min_bitrate' >= min_bitrate
              /\ max_bitrate' <= max_bitrate
              /\ max_bitrate' - min_bitrate' < max_bitrate - min_bitrate
      ]_vars

C5_Witness ==
    /\ pc = "loop"
    /\ ffmpeg = "erratic"
    /\ Len(tried) = 3
    /\ tried[1].size > target_size
    /\ tried[2].size <= target_size
    /\ tried[3].size > target_size
    /\ <<min_bitrate, max_bitrate>> = <<2500, 3750>>

\* C6: when an encoding attempt fails, the search aborts: the bounds are not
\* updated from that attempt, no further attempt is started and the call
\* does not return output_file.
C6_FailureAborts ==
    /\ \A i \in DOMAIN tried : tried[i].returncode = 0
    /\ (proc = "exited" /\ returncode # 0) => spawned = Len(tried) + 1
    /\ ReturnedPath => returncode = 0

\* C7: for a format that is not a key of the program's codec_map the call
\* does not return output_file and starts no encoder process.
C7_UnsupportedRejected ==
    output_format \notin DOMAIN codec_map(prog) =>
        /\ spawned = 0
        /\ proc = "none"
        /\ pc \in {"idle", "done"}
        /\ ret \in {"none", "None"}
        /\ pc = "done" => ret = "None"

C7_Witness ==
    /\ pc = "done"
    /\ ret = "None"
    /\ prog = "shrinkr"
    /\ output_format = "mkv"
    /\ spawned = 0

\* the encoder works and its output is over the target already at the
\* lowest bitrate the search can try
TargetUnreachable == ffmpeg = "ok" /\ ~Fits(InitialMin + 1)

\* C8: with an encoder whose output is over the target even at the lowest
\* bitrate, a search that has started ends, returns output_file without
\* raising, and the size it measured last is over the target.
C8_UnreachableTerminates ==
    (TargetUnreachable /\ pc = "loop" /\ tried = <<>>)
        ~> (/\ ReturnedPath
            /\ size > target_size
            /\ file = size
            /\ \A i \in DOMAIN tried : tried[i].size > target_size)

C8_Witness ==
    /\ TargetUnreachable
    /\ ReturnedPath
    /\ size > target_size
    /\ Len(tried) > 0

\* C9: a quiet call and a verbose call on the same input and encoder measure
\* the same size at every attempt and try the same bitrates, however many
\* times the quiet wait loop turned.
C9_QuietMatchesVerbose ==
    (run > 1 /\ prev.show_background # show_background) => RepeatsPrevious

C9_Witness ==
    /\ run > 1
    /\ prev.show_background
    /\ ~show_background
    /\ ffmpeg = "ok"
    /\ ReturnedPath
    /\ spinner > 0
    /\ Len(tried) > 1

\* C10: a second call with the same arguments tries the same bitrates,
\* measures the same sizes and ends with the same bounds and size as the
\* first, although the first left its file at output_file.
C10_RerunRepeats ==
    (run > 1 /\ prev.show_background = show_background) => RepeatsPrevious

C10_Witness ==
    /\ run > 1
    /\ prev.show_background = show_background
    /\ ffmpeg = "ok"
    /\ ReturnedPath
    /\ prev.ret = "path"
    /\ Len(tried) > 1
    /\ file # NoFile

\* the fetch collaborator of this run fails: yt-dlp is not installed, or the
\* download command exits with an error
FetchFails ==
    /\ is_youtube_link(cli)
    /\ (~cli.ytdlp \/ ~cli.download_ok)

\* C11: every failing path of the command-line program (malformed
\* arguments, no fetch tool, a failure raised during the download or the
\* search) ends with a non-zero exit status.
C11_FailuresExitNonZero ==
    (mpc = "exited" /\ failure # "none") => exit_status # 0

\* C12: when the input is a link and the fetch collaborator fails,
\* compress_file is never invoked and no encoder process is spawned.
C12_FetchFailureStopsCore ==
    FetchFails =>
        /\ mpc # "compress"
        /\ pc = "nocall"
        /\ spawned = 0
        /\ proc = "none"
        /\ tried = <<>>

C12_Witness ==
    /\ cli.args_ok
    /\ is_youtube_link(cli)
    /\ cli.ytdlp
    /\ ~cli.download_ok
    /\ mpc = "exited"
    /\ failure = "download"
    /\ ~source_exists

\* C17: main deletes the source file only after compress_file returned the
\* path of a produced output: when main finishes a run that produced no
\* output (format rejected, or a failure raised during the search), the
\* source file still exists.
C17_SourceKeptWithoutOutput ==
    (mpc = "exited" /\ pc = "done" /\ ret \in {"None", "raised"})
        => source_exists

\* the last attempt measured
LastTried == tried[Len(tried)]

\* C14: when compress_file returns after at least one attempt, the file at
\* output_file and the reported size are those produced and measured by the
\* last attempt, every attempt wrote output_file and no encoder is started
\* after the loop.
C14_LastAttemptProduced ==
    (ReturnedPath /\ Len(tried) > 0) =>
        /\ size = LastTried.size
        /\ file = size
        /\ LastTried.bitrate = video_bitrate
        /\ \A i \in DOMAIN tried : tried[i].returncode = 0
        /\ spawned = Len(tried)

RECURSIVE SomeSearchEndsOffBounds(_, _, _)
\* some sequence of measurements, over the target or not at each attempt,
\* ends the loop with the last bitrate tried equal to neither bound
SomeSearchEndsOffBounds(lo, hi, last) ==
    IF LoopContinues(lo, hi)
    THEN \E over \in BOOLEAN :
             LET b == NewBounds(lo, hi, Mid(lo, hi),
                                IF over THEN 1 ELSE 0, 0)
             IN  SomeSearchEndsOffBounds(b[1], b[2], Mid(lo, hi))
    ELSE last \notin {lo, hi}

\* C15 as stated: the reported size is the one of the last attempted
\* bitrate, and some terminating search ends with the last tried bitrate
\* equal to neither the final min_bitrate nor the final max_bitrate.
C15_LastOffBounds ==
    /\ (ReturnedPath /\ Len(tried) > 0) =>
           (size = LastTried.size /\ LastTried.bitrate = video_bitrate)
    /\ SomeSearchEndsOffBounds(InitialBounds[1], InitialBounds[2], Unbound)

\* C15: the reported size is the one measured at the last attempted
\* bitrate, and that bitrate is one of the final bounds: max_bitrate when
\* the size was over the target, min_bitrate otherwise.
C15_LastIsBound ==
    (pc \in {"loop", "done"} /\ Len(tried) > 0) =>
        /\ size = LastTried.size
        /\ LastTried.bitrate = video_bitrate
        /\ size > target_size => video_bitrate = max_bitrate
        /\ size <= target_size => video_bitrate = min_bitrate

C15_Witness ==
    /\ ReturnedPath
    /\ Len(tried) > 1
    /\ LastTried.size > target_size
    /\ LastTried.bitrate = max_bitrate
    /\ LastTried.bitrate # min_bitrate
    /\ tried[1].size <= target_size

\* C16: in both modes the size is measured and the bounds are updated only
\* after the encoder of the attempt has exited, an encoder is started only
\* when none is alive, and output_file changes only while the one encoder
\* of the attempt in progress is alive.
C16_SuspendedWhileEncoding ==
    [][ /\ Len(tried') > Len(tried) => proc = "exited"
        /\ (pc = "wait" /\ pc' # "wait") => proc = "exited"
        /\ spawned' > spawned => (proc = "none" /\ proc' = "alive")
        /\ file' # file => (proc = "alive" /\ pc = "wait")
        /\ proc = "alive" => (pc = "wait" /\ spawned = Len(tried) + 1)
      ]_vars

C16_Witness ==
    /\ ~show_background
    /\ pc = "wait"
    /\ proc = "alive"
    /\ spinner > 1
    /\ spawned > 1
    /\ file # NoFile

\* the bytes of a decimal number n in the unit u
ExpectedBytes(n, u) ==
    LET k == IF u = "kb" THEN 1024 ELSE 1
        h == IF u = "gb" THEN 1024 ELSE IF u = "mb" THEN 1 ELSE 0
    IN  IF h > 0
        THEN [err |-> FALSE, hi |-> n * h, lo |-> 0]
        ELSE [err |-> FALSE, hi |-> (n * k) \div Limb, lo |-> (n * k) % Limb]

\* C13: in both files parse_size maps decimal digits followed by a unit in
\* any case to bytes, kb = 1024, mb = 1024^2, gb = 1024^3, no unit = bytes:
\* "400kb" is 409600, "5mb" is 5242880, "2gb" is 2147483648 = 2048 * 2^20,
\* "1000" is 1000.
C13_ParseSizeUnits ==
    (mpc = "parsed" /\ ~size_arg.half
         /\ size_arg.unit \in {"kb", "mb", "gb", "none"}) =>
        /\ parsed = ExpectedBytes(size_arg.num, size_arg.unit)
        /\ Lower(size_arg.str) = <<"4", "0", "0", "k", "b">>
               => (parsed.hi = 0 /\ parsed.lo = 409600)
        /\ Lower(size_arg.str) = <<"5", "m", "b">>
               => (parsed.hi * Limb + parsed.lo = 5242880)
        /\ Lower(size_arg.str) = <<"2", "g", "b">>
               => (parsed.hi = 2048 /\ parsed.lo = 0)
        /\ size_arg.str = <<"1", "0", "0", "0">>
               => (parsed.hi = 0 /\ parsed.lo = 1000)

C13_Witness ==
    /\ mpc = "parsed"
    /\ prog = "shrinkr"
    /\ size_arg.str = <<"2", "G", "B">>
    /\ parsed = [err |-> FALSE, hi |-> 2048, lo |-> 0]

====
